---- MODULE Spec2Model ----
(***************************************************************************)
(* Model of the fight-judge upload widget (src/frontend/index.js).         *)
(*                                                                         *)
(* The state is the part of the DOM the script touches (the class lists of *)
(* the upload container and the preview, the player source, the two text   *)
(* nodes, the file input's selection), the browser's blob-URL store that   *)
(* URL.createObjectURL fills, and the alerts raised by the handler that    *)
(* ran last.  Strings the code inspects or builds (type labels, file       *)
(* names, the displayed texts) are sequences of one-character strings, so  *)
(* that startsWith, the extension regex and toFixed are computed.          *)
(***************************************************************************)
EXTENDS Integers, Sequences, FiniteSets

VARIABLES
    uploadContainerClasses, \* uploadContainer.classList
    videoPreviewClasses,    \* videoPreview.classList
    videoPlayerSrc,         \* videoPlayer.src
    fileNameText,           \* fileName.textContent
    fileSizeText,           \* fileSize.textContent
    inputFiles,             \* videoInput.files (cleared by videoInput.value = "")
    pickerOpen,             \* the file dialog opened by videoInput.click()
    blobStore,              \* live object URLs: URL number -> the file it serves
    alerted,                \* alert() messages raised by the handler that ran last
    lastEvent,              \* the event that handler received
    disk                    \* the files the user can pick or drop

vars == <<uploadContainerClasses, videoPreviewClasses, videoPlayerSrc,
          fileNameText, fileSizeText, inputFiles, pickerOpen, blobStore,
          alerted, lastEvent, disk>>

\* what the page shows and holds for the staged file
session == <<uploadContainerClasses, videoPreviewClasses, videoPlayerSrc,
             fileNameText, fileSizeText, blobStore>>

----------------------------------------------------------------------------
(* Bounds *)

\* object URLs created in one session
MaxUrls == 2
\* files carried by one drop or change event
MaxFiles == 2

----------------------------------------------------------------------------
(* Program constants *)

MAX_FILE_SIZE == 500 * 1024 * 1024

ALLOWED_TYPES ==
    { <<"v","i","d","e","o","/","m","p","4">>,
      <<"v","i","d","e","o","/","q","u","i","c","k","t","i","m","e">>,
      <<"v","i","d","e","o","/","x","-","m","s","v","i","d","e","o">> }

\* the prefix given to startsWith
VideoPrefix == <<"v","i","d","e","o","/">>

\* the alternatives of the regex /\.(mp4|mov|avi)$/i
RegexExtensions == { <<"m","p","4">>, <<"m","o","v">>, <<"a","v","i">> }

MsgInvalidType == "Please upload a valid video file (MP4, MOV, or AVI)"
MsgTooLarge == "File size must be less than 500MB"
MsgAnalyze == "Video analysis will be implemented here!"

HIDDEN == "hidden"
IdleBorder == {"border-white/30"}
DragBorder == {"border-sky-500", "bg-sky-500/10"}

\* videoPlayer.src = ""
EmptySrc == <<>>
\* the string URL.createObjectURL returns for the n-th URL of the document
BlobUrl(n) == <<"blob:", n>>

----------------------------------------------------------------------------
(* Strings *)

UpperCase == <<"A","B","C","D","E","F","G","H","I","J","K","L","M",
               "N","O","P","Q","R","S","T","U","V","W","X","Y","Z">>
LowerCase == <<"a","b","c","d","e","f","g","h","i","j","k","l","m",
               "n","o","p","q","r","s","t","u","v","w","x","y","z">>

\* the case folding of the regex flag i
FoldChar(c) ==
    IF \E i \in 1..26 : UpperCase[i] = c
    THEN LowerCase[CHOOSE i \in 1..26 : UpperCase[i] = c]
    ELSE c

FoldCase(s) == [i \in 1..Len(s) |-> FoldChar(s[i])]

\* String.prototype.startsWith
StartsWith(s, prefix) ==
    /\ Len(s) >= Len(prefix)
    /\ SubSeq(s, 1, Len(prefix)) = prefix

EndsWith(s, suffix) ==
    /\ Len(s) >= Len(suffix)
    /\ SubSeq(s, Len(s) - Len(suffix) + 1, Len(s)) = suffix

\* file.name.match(/\.(mp4|mov|avi)$/i)
MatchesExtension_NoDot(name) ==
    \E ext \in RegexExtensions : EndsWith(FoldCase(name), ext)

MatchesExtension_CaseSensitive(name) ==
    \E ext \in RegexExtensions : EndsWith(name, <<".">> \o ext)

MatchesExtension(name) ==
    \E ext \in RegexExtensions : EndsWith(FoldCase(name), <<".">> \o ext)

Digit(d) == <<"0","1","2","3","4","5","6","7","8","9">>[d + 1]

RECURSIVE ToDigits(_)
\* decimal digits of a natural number
ToDigits(n) ==
    IF n < 10 THEN <<Digit(n)>>
    ELSE ToDigits(n \div 10) \o <<Digit(n % 10)>>

Hundredths_Truncated(bytes) ==
    (bytes \div (1024 * 1024)) * 100
        + (((bytes % (1024 * 1024)) * 100) \div (1024 * 1024))

\* (bytes / (1024 * 1024)).toFixed(2): the division by 2^20 is exact in a
\* double, toFixed takes the nearest hundredth and the larger one on a tie.
\* The hundredths are computed from the remainder to stay within 32 bits.
Hundredths(bytes) ==
    (bytes \div (1024 * 1024)) * 100
        + (((bytes % (1024 * 1024)) * 100 + 512 * 1024) \div (1024 * 1024))

ToFixed2(bytes) ==
    LET h == Hundredths(bytes)
    IN  ToDigits(h \div 100) \o <<".">>
            \o <<Digit((h % 100) \div 10), Digit(h % 10)>>

\* `File: ${file.name}`
FileNameLabel(file) == <<"F","i","l","e",":"," ">> \o file.name

\* `Size: ${(file.size / (1024 * 1024)).toFixed(2)} MB`
FileSizeLabel(file) ==
    <<"S","i","z","e",":"," ">> \o ToFixed2(file.size) \o <<" ","M","B">>

----------------------------------------------------------------------------
(* The files a user may offer *)

Names ==
    { <<"f","i","g","h","t",".","m","p","4">>,
      <<"c","l","i","p",".","M","O","V">>,
      <<"a",".","A","v","I">>,
      <<"f","i","g","h","t",".","m","k","v">>,
      <<"m","p","4">>,
      <<"v",".","m","p","4",".","t","x","t">> }

Types ==
    ALLOWED_TYPES \cup
    { <<>>,
      <<"v","i","d","e","o","/","x","-","m","a","t","r","o","s","k","a">>,
      <<"t","e","x","t","/","p","l","a","i","n">>,
      <<"x","v","i","d","e","o","/","m","p","4">> }

Sizes ==
    { 0, 1000000, 1048575, 3276800, 10000000,
      MAX_FILE_SIZE, MAX_FILE_SIZE + 1, 600000000 }

Candidates == [name : Names, type : Types, size : Sizes]

\* the first scenario of the spec: a valid file kept on every disk
FightMp4 ==
    [name |-> <<"f","i","g","h","t",".","m","p","4">>,
     type |-> <<"v","i","d","e","o","/","m","p","4">>,
     size |-> 50000000]

\* the FileList of an event: up to n distinct files of the disk, in any order
RECURSIVE FileLists(_, _)
FileLists(files, n) ==
    IF n = 0 THEN {<<>>}
    ELSE FileLists(files, n - 1)
            \cup UNION {{Append(l, f) : f \in files \ {l[i] : i \in 1..Len(l)}} :
                            l \in FileLists(files, n - 1)}

----------------------------------------------------------------------------
(* handleFile *)

\* the elements and the URL store a handler reads and writes, as one record
Dom ==
    [uploadContainerClasses |-> uploadContainerClasses,
     videoPreviewClasses |-> videoPreviewClasses,
     videoPlayerSrc |-> videoPlayerSrc,
     fileNameText |-> fileNameText,
     fileSizeText |-> fileSizeText,
     inputFiles |-> inputFiles,
     pickerOpen |-> pickerOpen,
     blobStore |-> blobStore,
     alerts |-> <<>>]

\* !file.type.startsWith("video/") && !file.name.match(/\.(mp4|mov|avi)$/i)
TypeCheckFails(file) ==
    /\ ~StartsWith(file.type, VideoPrefix)
    /\ ~MatchesExtension(file.name)

SizeCheckFails_WholeMegabytes(file) ==
    file.size \div (1024 * 1024) > 500

SizeCheckFails_Inclusive(file) == file.size >= MAX_FILE_SIZE

\* file.size > MAX_FILE_SIZE
SizeCheckFails(file) == file.size > MAX_FILE_SIZE

\* alert(message)
Alert(dom, message) == [dom EXCEPT !.alerts = Append(@, message)]

\* URL.createObjectURL(file): a new URL, live until it is revoked
CreateObjectURL(dom, file) ==
    LET n == Cardinality(DOMAIN dom.blobStore) + 1
    IN  [url |-> BlobUrl(n),
         store |-> [u \in DOMAIN dom.blobStore \cup {n} |->
                        IF u = n THEN file ELSE dom.blobStore[u]]]

ShowPreview_StaleSize(dom, file) ==
    LET created == CreateObjectURL(dom, file)
    IN  [dom EXCEPT
            !.blobStore = created.store,
            !.videoPlayerSrc = created.url,
            !.fileNameText = FileNameLabel(file),
            !.uploadContainerClasses = @ \cup {HIDDEN},
            !.videoPreviewClasses = @ \ {HIDDEN}]

\* lines 72-79: create the object URL and show the preview
ShowPreview(dom, file) ==
    LET created == CreateObjectURL(dom, file)
    IN  [dom EXCEPT
            !.blobStore = created.store,
            !.videoPlayerSrc = created.url,
            !.fileNameText = FileNameLabel(file),
            !.fileSizeText = FileSizeLabel(file),
            !.uploadContainerClasses = @ \cup {HIDDEN},
            !.videoPreviewClasses = @ \ {HIDDEN}]

HandleFile_SizeFirst(dom, file) ==
    IF SizeCheckFails(file) THEN Alert(dom, MsgTooLarge)
    ELSE IF TypeCheckFails(file) THEN Alert(dom, MsgInvalidType)
    ELSE ShowPreview(dom, file)

HandleFile_LabelsFirst(dom, file) ==
    LET shown == [dom EXCEPT !.fileNameText = FileNameLabel(file),
                             !.fileSizeText = FileSizeLabel(file)]
    IN  IF TypeCheckFails(file) THEN Alert(shown, MsgInvalidType)
        ELSE IF SizeCheckFails(file) THEN Alert(shown, MsgTooLarge)
        ELSE ShowPreview(shown, file)

HandleFile(dom, file) ==
    IF TypeCheckFails(file) THEN Alert(dom, MsgInvalidType)
    ELSE IF SizeCheckFails(file) THEN Alert(dom, MsgTooLarge)
    ELSE ShowPreview(dom, file)

----------------------------------------------------------------------------
(* Event handlers *)

\* the state a handler leaves behind
Commit(dom, event) ==
    /\ Cardinality(DOMAIN dom.blobStore) <= MaxUrls
    /\ uploadContainerClasses' = dom.uploadContainerClasses
    /\ videoPreviewClasses' = dom.videoPreviewClasses
    /\ videoPlayerSrc' = dom.videoPlayerSrc
    /\ fileNameText' = dom.fileNameText
    /\ fileSizeText' = dom.fileSizeText
    /\ inputFiles' = dom.inputFiles
    /\ pickerOpen' = dom.pickerOpen
    /\ blobStore' = dom.blobStore
    /\ alerted' = dom.alerts
    /\ lastEvent' = event
    /\ UNCHANGED disk

\* videoInput.click(): the browser opens the file dialog
OpenPicker(dom) == [dom EXCEPT !.pickerOpen = TRUE]

OnUploadBtnClick(dom) == OpenPicker(dom)

\* e.target is the clicked element; the button's own clicks are skipped
OnUploadContainerClick(dom, target) ==
    IF target # "uploadBtn" THEN OpenPicker(dom) ELSE dom

OnDragOver(dom) ==
    [dom EXCEPT !.uploadContainerClasses = (@ \ IdleBorder) \cup DragBorder]

OnDragLeave(dom) ==
    [dom EXCEPT !.uploadContainerClasses = (@ \cup IdleBorder) \ DragBorder]

OnDrop_AlertWhenEmpty(dom, files) ==
    LET reset == OnDragLeave(dom)
    IN  IF Len(files) > 0 THEN HandleFile(reset, files[1])
        ELSE Alert(reset, MsgInvalidType)

OnDrop_LastFile(dom, files) ==
    LET reset == OnDragLeave(dom)
    IN  IF Len(files) > 0 THEN HandleFile(reset, files[Len(files)]) ELSE reset

OnDrop(dom, files) ==
    LET reset == OnDragLeave(dom)
    IN  IF Len(files) > 0 THEN HandleFile(reset, files[1]) ELSE reset

\* e.target.files is the selection the browser has just stored in the input
OnInputChange(dom, files) ==
    IF Len(files) > 0 THEN HandleFile(dom, files[1]) ELSE dom

OnChangeBtnClick_ContainerStaysHidden(dom) ==
    [dom EXCEPT
        !.videoPlayerSrc = EmptySrc,
        !.inputFiles = <<>>,
        !.videoPreviewClasses = @ \cup {HIDDEN}]

OnChangeBtnClick_KeepsInputValue(dom) ==
    [dom EXCEPT
        !.videoPlayerSrc = EmptySrc,
        !.uploadContainerClasses = @ \ {HIDDEN},
        !.videoPreviewClasses = @ \cup {HIDDEN}]

OnChangeBtnClick(dom) ==
    [dom EXCEPT
        !.videoPlayerSrc = EmptySrc,
        !.inputFiles = <<>>,
        !.uploadContainerClasses = @ \ {HIDDEN},
        !.videoPreviewClasses = @ \cup {HIDDEN}]

OnAnalyzeBtnClick_Resets(dom) ==
    [Alert(dom, MsgAnalyze) EXCEPT !.videoPlayerSrc = EmptySrc]

OnAnalyzeBtnClick(dom) == Alert(dom, MsgAnalyze)

Event(handler, files) == [handler |-> handler, files |-> files]

UploadBtnClick ==
    Commit(OnUploadBtnClick(Dom), Event("uploadBtn.click", <<>>))

\* a click inside the container: on the button (after the button's own
\* handler has run) or elsewhere
UploadContainerClick ==
    \E target \in {"uploadBtn", "uploadContainer"} :
        Commit(OnUploadContainerClick(
                    IF target = "uploadBtn" THEN OnUploadBtnClick(Dom) ELSE Dom,
                    target),
               Event("uploadContainer.click", <<>>))

DragOver == Commit(OnDragOver(Dom), Event("dragover", <<>>))

DragLeave == Commit(OnDragLeave(Dom), Event("dragleave", <<>>))

Drop ==
    \E files \in FileLists(disk, MaxFiles) :
        Commit(OnDrop(Dom, files), Event("drop", files))

\* the dialog closes with a selection that differs from the input's current
\* one; the browser stores it and fires change
InputChange ==
    \E files \in FileLists(disk, MaxFiles) :
        /\ pickerOpen
        /\ files # inputFiles
        /\ Commit(OnInputChange([Dom EXCEPT !.inputFiles = files,
                                            !.pickerOpen = FALSE], files),
                  Event("change", files))

ChangeBtnClick == Commit(OnChangeBtnClick(Dom), Event("changeBtn.click", <<>>))

AnalyzeBtnClick == Commit(OnAnalyzeBtnClick(Dom), Event("analyzeBtn.click", <<>>))

----------------------------------------------------------------------------
(* Specification *)

Init ==
    /\ uploadContainerClasses = IdleBorder
    /\ videoPreviewClasses = {HIDDEN}
    /\ videoPlayerSrc = EmptySrc
    /\ fileNameText = <<>>
    /\ fileSizeText = <<>>
    /\ inputFiles = <<>>
    /\ pickerOpen = FALSE
    /\ blobStore = <<>>
    /\ alerted = <<>>
    /\ lastEvent = Event("load", <<>>)
    /\ disk \in {{FightMp4, f} : f \in Candidates}

Next ==
    \/ UploadBtnClick
    \/ UploadContainerClick
    \/ DragOver
    \/ DragLeave
    \/ Drop
    \/ InputChange
    \/ ChangeBtnClick
    \/ AnalyzeBtnClick

Spec == Init /\ [][Next]_vars

----------------------------------------------------------------------------
(* Vocabulary of the properties *)

\* the event of the last handler offered at least one file
Offered == lastEvent.handler \in {"drop", "change"} /\ Len(lastEvent.files) > 0

\* the file handleFile was called with
Candidate == lastEvent.files[1]

\* the object URLs that have been created and not revoked
LiveUrls == DOMAIN blobStore

\* type labels of the input domain that do not start with "video/"
NonVideoTypes ==
    { <<>>,
      <<"t","e","x","t","/","p","l","a","i","n">>,
      <<"x","v","i","d","e","o","/","m","p","4">> }

\* names of the input domain that end in .mp4, .mov or .avi in some letter case
ExtensionNames ==
    { <<"f","i","g","h","t",".","m","p","4">>,
      <<"c","l","i","p",".","M","O","V">>,
      <<"a",".","A","v","I">> }

\* the file is the staged upload: the player plays a live URL of it, its
\* name and size are displayed, the preview is shown instead of the container
StagedAs(file) ==
    /\ videoPlayerSrc # EmptySrc
    /\ videoPlayerSrc[2] \in LiveUrls
    /\ blobStore[videoPlayerSrc[2]] = file
    /\ fileNameText = FileNameLabel(file)
    /\ fileSizeText = FileSizeLabel(file)
    /\ HIDDEN \notin videoPreviewClasses
    /\ HIDDEN \in uploadContainerClasses

\* the session is back in the Empty state
EmptyState ==
    /\ videoPlayerSrc = EmptySrc
    /\ HIDDEN \in videoPreviewClasses
    /\ HIDDEN \notin uploadContainerClasses

\* a step that stages nothing and changes nothing of what is staged or shown
NothingStaged ==
    /\ UNCHANGED <<videoPlayerSrc, fileNameText, fileSizeText, blobStore,
                   videoPreviewClasses>>
    /\ (HIDDEN \in uploadContainerClasses') = (HIDDEN \in uploadContainerClasses)

\* the step ran a handler that called handleFile
OfferedStep ==
    /\ lastEvent'.handler \in {"drop", "change"}
    /\ Len(lastEvent'.files) > 0

----------------------------------------------------------------------------
(* Properties *)

\* C1: at most one staged-upload resource (object URL created by handleFile)
\* is live in any reachable state.
C1_AtMostOneLive == Cardinality(LiveUrls) <= 1

\* C2: every candidate with size > maxBytes, whatever its type label and
\* name, is rejected with the size alert and is not staged.
C2_TooLargeWhateverType ==
    [][(OfferedStep /\ lastEvent'.files[1].size > 524288000)
            => (alerted' = <<MsgTooLarge>> /\ NothingStaged)]_vars

\* C2 (amended): every candidate with size > maxBytes whose type label starts
\* with "video/" or whose name ends in .mp4, .mov or .avi is rejected with the
\* size alert and is not staged; one that fails that type check is rejected
\* with the type alert and is not staged either.
C2_TooLargeAfterType ==
    [][(OfferedStep /\ lastEvent'.files[1].size > 524288000)
            => /\ NothingStaged
               /\ alerted' =
                    IF lastEvent'.files[1].type \notin NonVideoTypes
                          \/ lastEvent'.files[1].name \in ExtensionNames
                    THEN <<MsgTooLarge>>
                    ELSE <<MsgInvalidType>>]_vars

C2_Witness ==
    /\ Offered
    /\ Candidate.size = 524288001
    /\ Candidate.type = <<>>
    /\ Candidate.name \in ExtensionNames
    /\ alerted = <<MsgTooLarge>>

\* C3: a candidate that fails both the type/extension check and the size
\* check is reported as InvalidType, never TooLarge, with exactly one alert.
C3_TypePrecedence ==
    (/\ Offered
     /\ Candidate.type \in NonVideoTypes
     /\ Candidate.name \notin ExtensionNames
     /\ Candidate.size > 524288000)
        => alerted = <<MsgInvalidType>>

C3_Witness ==
    /\ Offered
    /\ Candidate.type \in NonVideoTypes
    /\ Candidate.name \notin ExtensionNames
    /\ Candidate.size = 600000000
    /\ alerted = <<MsgInvalidType>>

\* C4: every candidate whose type label is not in allowedTypes and whose name
\* does not end in .mp4, .mov or .avi is rejected with InvalidType, labels
\* that begin with "video/" included.
C4_TypeMembership ==
    (/\ Offered
     /\ Candidate.type \notin ALLOWED_TYPES
     /\ Candidate.name \notin ExtensionNames)
        => alerted = <<MsgInvalidType>>

\* C5: every candidate whose type is in allowedTypes and whose size is at
\* most maxBytes is accepted: no alert, and it becomes the staged upload.
C5_AcceptsAllowedType ==
    (/\ Offered
     /\ Candidate.type \in ALLOWED_TYPES
     /\ Candidate.size <= 524288000)
        => (alerted = <<>> /\ StagedAs(Candidate))

C5_Witness ==
    /\ Offered
    /\ Candidate.type \in ALLOWED_TYPES
    /\ Candidate.name \notin ExtensionNames
    /\ Candidate.size = 524288000
    /\ StagedAs(Candidate)

\* C6: every candidate whose type label does not start with "video/" and
\* whose name does not end in .mp4, .mov or .avi in any letter case is
\* rejected with InvalidType and is not staged, whatever its size.
C6_RejectsNonVideo ==
    [][(/\ OfferedStep
        /\ lastEvent'.files[1].type \in NonVideoTypes
        /\ lastEvent'.files[1].name \notin ExtensionNames)
            => (alerted' = <<MsgInvalidType>> /\ NothingStaged)]_vars

C6_Witness ==
    /\ Offered
    /\ Candidate.type = <<>>
    /\ Candidate.name = <<"m","p","4">>
    /\ Candidate.size = 0
    /\ alerted = <<MsgInvalidType>>
    /\ ~StagedAs(Candidate)

\* C7: every candidate whose type label is empty or not a video type, whose
\* name ends in .mp4, .mov or .avi compared case-insensitively and whose size
\* is at most maxBytes is accepted and staged.
C7_ExtensionFallback ==
    (/\ Offered
     /\ Candidate.type \in NonVideoTypes
     /\ Candidate.name \in ExtensionNames
     /\ Candidate.size <= 524288000)
        => (alerted = <<>> /\ StagedAs(Candidate))

C7_Witness ==
    /\ Offered
    /\ Candidate.type = <<>>
    /\ Candidate.name = <<"c","l","i","p",".","M","O","V">>
    /\ Candidate.size = 10000000
    /\ StagedAs(Candidate)

\* C8: whenever the session is back in the Empty state, no staged resource
\* is live.
C8_NoLeakWhenEmpty == EmptyState => Cardinality(LiveUrls) = 0

\* C9: a step in which handleFile rejects its candidate leaves the player
\* source, the displayed name and size, the live resources and the
\* visibility of the container and the preview as they were, and reports the
\* rejection as exactly one alert.
C9_RejectionKeepsSession ==
    [][(OfferedStep /\ alerted' # <<>>)
            => /\ NothingStaged
               /\ alerted' \in {<<MsgInvalidType>>, <<MsgTooLarge>>}]_vars

C9_Witness ==
    /\ Offered
    /\ Candidate.size > 524288000
    /\ alerted = <<MsgTooLarge>>
    /\ StagedAs(FightMp4)
    /\ Candidate # FightMp4

\* C10: a drop or change event that carries zero files raises no alert and
\* leaves the staged file, the displayed name and size, the player source
\* and the visibility of the container and the preview unchanged.
C10_NoCandidateIgnored ==
    [][(/\ lastEvent'.handler \in {"drop", "change"}
        /\ lastEvent'.files = <<>>)
            => (alerted' = <<>> /\ NothingStaged)]_vars

C10_Witness ==
    /\ lastEvent.handler = "change"
    /\ lastEvent.files = <<>>
    /\ alerted = <<>>
    /\ StagedAs(FightMp4)

\* the staged file and what is shown of it, as a handler's result leaves them
SessionOf(dom) ==
    <<dom.uploadContainerClasses, dom.videoPreviewClasses, dom.videoPlayerSrc,
      dom.fileNameText, dom.fileSizeText, dom.blobStore>>

\* C11: when an event offers several files, the session state and the alerts
\* it leaves are those of the same event offering only files[0] (the input's
\* own selection and the file dialog, which the browser sets, aside).
C11_OnlyFirstFile ==
    [][(OfferedStep /\ Len(lastEvent'.files) > 1) =>
        LET first == <<lastEvent'.files[1]>>
            alone == IF lastEvent'.handler = "drop"
                     THEN OnDrop(Dom, first)
                     ELSE OnInputChange(Dom, first)
        IN  [Dom' EXCEPT !.alerts = alerted'] =
                [alone EXCEPT !.inputFiles = inputFiles',
                              !.pickerOpen = pickerOpen']]_vars

C11_Witness ==
    /\ Offered
    /\ Len(lastEvent.files) = 2
    /\ Candidate = FightMp4
    /\ lastEvent.files[2].size > 524288000
    /\ alerted = <<>>
    /\ StagedAs(FightMp4)

\* C12: after the change-video click the staged resource is no longer
\* accessible, and a second click in a row changes nothing.
C12_ReleaseThenNoOp ==
    (lastEvent.handler = "changeBtn.click")
        => /\ videoPlayerSrc = EmptySrc
           /\ LiveUrls = {}
           /\ SessionOf(OnChangeBtnClick(Dom)) = session
           /\ OnChangeBtnClick(Dom).inputFiles = inputFiles

\* C13: clicking Analyze leaves the staged file, the player source, the
\* displayed name and size, the live resources, the visibility, the input's
\* selection and the file dialog unchanged; it only raises its alert.
C13_AnalyzeIsPlaceholder ==
    [][(lastEvent'.handler = "analyzeBtn.click")
            => /\ UNCHANGED <<session, inputFiles, pickerOpen>>
               /\ alerted' = <<MsgAnalyze>>]_vars

C13_Witness ==
    /\ lastEvent.handler = "analyzeBtn.click"
    /\ alerted = <<MsgAnalyze>>
    /\ StagedAs(FightMp4)

DecimalDigits == {"0","1","2","3","4","5","6","7","8","9"}

\* the number a string of decimal digits denotes
RECURSIVE DecimalValue(_)
DecimalValue(digits) ==
    IF Len(digits) = 0 THEN 0
    ELSE 10 * DecimalValue(SubSeq(digits, 1, Len(digits) - 1))
            + (CHOOSE d \in 0..9 :
                 <<"0","1","2","3","4","5","6","7","8","9">>[d + 1]
                    = digits[Len(digits)])

\* text reads "Size: <x> MB" where x is a decimal numeral with exactly two
\* decimals, no superfluous leading zero, and no other two-decimal number is
\* nearer to bytes / (1024 * 1024)
IsSizeText(text, bytes) ==
    LET n == Len(text)
        whole == SubSeq(text, 7, n - 6)
        frac == SubSeq(text, n - 4, n - 3)
        k == DecimalValue(whole) * 100 + DecimalValue(frac)
                - (bytes \div 1048576) * 100
        twice == 2 * (k * 1048576 - (bytes % 1048576) * 100)
    IN  /\ n >= 13
        /\ SubSeq(text, 1, 6) = <<"S","i","z","e",":"," ">>
        /\ SubSeq(text, n - 2, n) = <<" ","M","B">>
        /\ text[n - 5] = "."
        /\ \A i \in 1..Len(whole) : whole[i] \in DecimalDigits
        /\ \A i \in 1..2 : frac[i] \in DecimalDigits
        /\ Len(whole) > 1 => whole[1] # "0"
        /\ k \in 0..100
        /\ twice >= -1048576
        /\ twice <= 1048576

\* C14: for every accepted file the name is displayed as "File: <name>" and
\* the size as "Size: <x> MB", x being bytes / (1024*1024) to the nearest
\* hundredth with exactly two decimals; 50000000 bytes show "Size: 47.68 MB".
C14_DisplayedMetadata ==
    (Offered /\ alerted = <<>>)
        => /\ fileNameText = <<"F","i","l","e",":"," ">> \o Candidate.name
           /\ IsSizeText(fileSizeText, Candidate.size)
           /\ Candidate.size = 50000000 =>
                fileSizeText = <<"S","i","z","e",":"," ","4","7",".","6","8",
                                 " ","M","B">>

C14_Witness ==
    /\ Offered
    /\ alerted = <<>>
    /\ Candidate.size = 50000000
    /\ fileNameText = <<"F","i","l","e",":"," ","f","i","g","h","t",".","m","p","4">>
    /\ fileSizeText = <<"S","i","z","e",":"," ","4","7",".","6","8"," ","M","B">>

\* the file behind the player source
PlayedFile == blobStore[videoPlayerSrc[2]]

\* C15: whenever the preview is visible, the player plays a live URL and the
\* displayed name and size are those of the file that URL serves.
C15_MetadataOfStagedFile ==
    (HIDDEN \notin videoPreviewClasses)
        => /\ videoPlayerSrc # EmptySrc
           /\ videoPlayerSrc[2] \in LiveUrls
           /\ fileNameText = <<"F","i","l","e",":"," ">> \o PlayedFile.name
           /\ IsSizeText(fileSizeText, PlayedFile.size)

\* a file was staged a second time, then another file was rejected
C15_Witness ==
    /\ HIDDEN \notin videoPreviewClasses
    /\ Cardinality(LiveUrls) = 2
    /\ videoPlayerSrc = BlobUrl(2)
    /\ Offered
    /\ alerted = <<MsgInvalidType>>
    /\ Candidate # PlayedFile
    /\ fileNameText = <<"F","i","l","e",":"," ">> \o blobStore[2].name

\* the session is in the Staged state
StagedState ==
    /\ videoPlayerSrc # EmptySrc
    /\ HIDDEN \notin videoPreviewClasses
    /\ HIDDEN \in uploadContainerClasses

\* C16: exactly one of the upload container and the preview is visible, the
\* preview is visible iff the player source is non-empty; only an accepted
\* handleFile leaves Empty for Staged and only the change-video click leaves
\* Staged for Empty.
C16_EmptyStagedEmpty ==
    /\ [](/\ (HIDDEN \in uploadContainerClasses) # (HIDDEN \in videoPreviewClasses)
          /\ (HIDDEN \notin videoPreviewClasses) <=> (videoPlayerSrc # EmptySrc))
    /\ [][/\ (EmptyState /\ ~EmptyState') => (OfferedStep /\ alerted' = <<>> /\ StagedState')
          /\ (StagedState /\ ~StagedState') =>
                (lastEvent'.handler = "changeBtn.click" /\ EmptyState')]_vars

C16_Witness ==
    /\ EmptyState
    /\ lastEvent.handler = "changeBtn.click"
    /\ Cardinality(LiveUrls) = 2

\* a file of the input domain that handleFile accepts
ValidFile(file) ==
    /\ file.type \notin NonVideoTypes \/ file.name \in ExtensionNames
    /\ file.size <= 524288000

\* what a handler's result holds for the file: a live URL of it as the player
\* source, the preview shown, the container hidden, no alert
StagesFile(dom, file) ==
    /\ dom.alerts = <<>>
    /\ dom.videoPlayerSrc # EmptySrc
    /\ dom.videoPlayerSrc[2] \in DOMAIN dom.blobStore
    /\ dom.blobStore[dom.videoPlayerSrc[2]] = file
    /\ HIDDEN \notin dom.videoPreviewClasses
    /\ HIDDEN \in dom.uploadContainerClasses

\* C17: after a change-video click the player source is empty, the input's
\* value is cleared, the container is visible and the preview hidden; the
\* picker then reports any valid file as a change, the file staged before
\* included, and in every state a valid file offered by drop or by the picker
\* is staged.
C17_ChangeVideoResets ==
    /\ []((lastEvent.handler = "changeBtn.click")
            => /\ videoPlayerSrc = EmptySrc
               /\ inputFiles = <<>>
               /\ HIDDEN \notin uploadContainerClasses
               /\ HIDDEN \in videoPreviewClasses
               /\ \A f \in disk : ValidFile(f) => <<f>> # inputFiles)
    /\ [](\A f \in disk : ValidFile(f) =>
            /\ StagesFile(OnDrop(Dom, <<f>>), f)
            /\ StagesFile(OnInputChange(Dom, <<f>>), f))
    /\ [][(lastEvent.handler = "changeBtn.click" /\ OfferedStep
                /\ ValidFile(lastEvent'.files[1]))
            => (alerted = <<>> /\ StagedAs(Candidate))']_vars

\* the staged file was selected with the picker, then change-video was clicked
C17_Witness ==
    /\ lastEvent.handler = "changeBtn.click"
    /\ EmptyState
    /\ inputFiles = <<>>
    /\ Cardinality(LiveUrls) = 1
    /\ blobStore[1] = FightMp4
    /\ fileNameText = <<"F","i","l","e",":"," ","f","i","g","h","t",".","m","p","4">>

====
